---- MODULE Spec2Model ----
(***************************************************************************)
(* Model of acquire_sub_posts_json.py: the resumable streaming archive      *)
(* writer (dump_subreddit_json, write_posts_to_file), the paginating        *)
(* record source (fetch_all_subreddit_posts), the retry policy              *)
(* (fetch_chunk), the SIGINT scope (handle_graceful_interrupt) and the      *)
(* sealing stage (compress_and_delete_json).                                *)
(*                                                                          *)
(* Files are byte sequences; a byte is a one-character string.  A record of *)
(* the remote data set is identified by its index in `data`, whose entry is *)
(* the record's created_utc.  SIGINT is delivered between two statements of *)
(* the main thread, which is where CPython runs a Python signal handler.    *)
(***************************************************************************)
EXTENDS Integers, Sequences, FiniteSets, TLC

\* ------------------------------------------------------------------ bounds
MaxRecs == 3
MaxTs == 3
PageSize == 2
MaxRuns == 2
StopEarlyTs == 3

\* ------------------------------------------------------- program constants
MaxRetries == 7
NoneTs == -1
NoPost == 0

\* ------------------------------------------------------------------- state
VARIABLES
    data,            \* remote data set: created_utc of record i, non-decreasing
    afterInclusive,  \* whether the remote treats `after` as >= (TRUE) or > (FALSE)
    plain,           \* <name>_subreddit_posts_raw.json
    marker,          \* <name>_subreddit_posts_raw.json.incomplete
    gz,              \* <name>_subreddit_posts_raw.json.gz
    pc,              \* position of the running invocation, "idle" when none runs
    runs,            \* number of invocations started
    is_incomplete,   \* dump_subreddit_json: is_incomplete
    before,          \* dump_subreddit_json: before
    after,           \* write_posts_to_file: after (the value the run started with)
    first_post,      \* write_posts_to_file: first_post
    post,            \* write_posts_to_file: post (NoPost is None)
    pos,             \* write position of f
    file_finished,   \* write_posts_to_file: file_finished
    gafter,          \* fetch_all_subreddit_posts: after
    chunk,           \* fetch_all_subreddit_posts: records of the page not yet yielded
    retries,         \* fetch_chunk: retries
    base,            \* bytes of the plain file when f was opened
    pos0,            \* write position when the loop was entered
    nwritten,        \* records completely written by this invocation
    lastWritten,     \* last record completely written by this invocation
    attempts,        \* requests sent by the current fetch_chunk call
    sleeps,          \* delays taken by the current fetch_chunk call
    fetchEnd,        \* how the last fetch_chunk call ended
    cause,           \* why the running or last invocation left the write loop
    abortPc,         \* position at which the write loop was left on an abort
    result,          \* value write_posts_to_file returned
    trace,           \* outcomes of the invocations so far
    everStopEarly    \* whether some invocation ran with stop_early

vars == <<data, afterInclusive, plain, marker, gz, pc, runs, is_incomplete, before,
          after, first_post, post, pos, file_finished, gafter, chunk, retries,
          base, pos0, nwritten, lastWritten, attempts, sleeps, fetchEnd, cause,
          abortPc, result, trace, everStopEarly>>

diskVars == <<plain, marker, gz>>
envVars == <<data, afterInclusive>>
dumpVars == <<is_incomplete, before>>
writerVars == <<after, first_post, post, pos, file_finished, base, pos0>>
genVars == <<gafter, chunk>>
fetchVars == <<retries, attempts, sleeps, fetchEnd>>
histVars == <<nwritten, lastWritten>>

\* ------------------------------------------------------------------- bytes
NoFile == [exists |-> FALSE, bytes |-> <<>>]
File(b) == [exists |-> TRUE, bytes |-> b]

OPEN == <<"[">>
SEP == <<",", "\n">>
CLOSE == <<"\n", "]">>

IdByte == <<"a", "b", "c", "d", "e", "f">>
IdOf(c) == CHOOSE i \in 1..Len(IdByte) : IdByte[i] = c
IsIdByte(c) == \E i \in 1..Len(IdByte) : IdByte[i] = c

\* json.dumps(post).encode('utf-8'): an object, closed by its brace
Dumps(p) == <<"{", IdByte[p], "}">>

Digit == <<"0", "1", "2", "3", "4", "5", "6", "7", "8", "9">>
IsDigit(c) == \E i \in 1..10 : Digit[i] = c
DigitVal(c) == (CHOOSE i \in 1..10 : Digit[i] = c) - 1

RECURSIVE Str(_)
\* str(result) of a non-negative integer
Str(n) == IF n < 10 THEN <<Digit[n + 1]>> ELSE Str(n \div 10) \o <<Digit[(n % 10) + 1]>>

\* int(timestamp_s) succeeds on a non-empty string of digits, else ValueError
IntOk(s) == Len(s) > 0 /\ \A i \in 1..Len(s) : IsDigit(s[i])
RECURSIVE IntOf(_)
IntOf(s) == IF Len(s) = 0 THEN 0
            ELSE 10 * IntOf(SubSeq(s, 1, Len(s) - 1)) + DigitVal(s[Len(s)])

\* f.write(w) at position p of a file opened 'rb+': overwrites, never truncates
WriteAt(b, p, w) == SubSeq(b, 1, p) \o w \o SubSeq(b, p + Len(w) + 1, Len(b))

RECURSIVE ScanBack(_, _, _)
\* the backward scan for b'}': cur is current_position, fp the file position
ScanBack(b, cur, fp) ==
    IF cur > 0
    THEN IF b[cur] = "}" THEN cur ELSE ScanBack(b, cur - 1, cur)
    ELSE fp
SeekLastBrace_m(b) == Len(b)
SeekLastBrace(b) == ScanBack(b, Len(b), Len(b))

\* gzip container around the copied bytes
Gzip(b) == <<"gz">> \o b
Gunzip(z) == Tail(z)

\* ------------------------------------------------------------------ remote
RECURSIVE Select(_, _, _)
\* indices i..Len(data) of the records within the (after, before) bounds
Select(i, a, b) ==
    IF i > Len(data) THEN <<>>
    ELSE IF /\ (a = NoneTs \/ (IF afterInclusive THEN data[i] >= a ELSE data[i] > a))
            /\ (b = NoneTs \/ data[i] < b)
         THEN <<i>> \o Select(i + 1, a, b)
         ELSE Select(i + 1, a, b)

Prefix(s, n) == SubSeq(s, 1, IF Len(s) < n THEN Len(s) ELSE n)

\* resp.json()['data'] of one successful request: sort asc, size, after, before
Page(a, b) == Prefix(Select(1, a, b), PageSize)

\* ------------------------------------------------------- decisions of the code
\* os.path.isfile(file_path + ".gz")
SealedExists_m == FALSE
SealedExists == gz.exists

\* if is_incomplete and not file_exists: os.remove(incomplete_path)
StaleMarker_m(inc, file_exists) == FALSE
StaleMarker(inc, file_exists) == inc /\ ~file_exists

\* if file_exists and not is_incomplete: print the error and return
RefusesBroken_m(file_exists, inc) == FALSE
RefusesBroken(file_exists, inc) == file_exists /\ ~inc

\* while retries <= max_retries
RetryAllowed_m(r) == r <= MaxRetries + 1
RetryAllowed(r) == r <= MaxRetries

\* which except clause sets save_incomplete (the others set delete_incomplete)
SavesIncomplete_m(c, fp) == c = "interrupt"
SavesIncomplete(c, fp) == c = "interrupt" \/ ~fp

\* the value returned inside `if save_incomplete`
ResumeTimestamp_m(p, a) == IF p # NoPost THEN data[p] + 1 ELSE a
ResumeTimestamp(p, a) == IF p # NoPost THEN data[p] ELSE a

\* `if file_finished` is reached only when no return was taken before it
SealReached_m(saved, ff) == ff
SealReached(saved, ff) == ~saved /\ ff

\* first_post = True after f.write(b'['), first_post = False before the scan
FirstPostAtOpen_m(inc) == TRUE
FirstPostAtOpen(inc) == ~inc

\* what dump_subreddit_json leaves in the marker for a returned result
MarkerAfter_m(res) == IF res # NoneTs THEN File(Str(res)) ELSE File(<<>>)
MarkerAfter(res) == IF res # NoneTs THEN File(Str(res)) ELSE NoFile

\* -------------------------------------------------------------------- Init
NonDecreasing(s) == \A i \in 1..(Len(s) - 1) : s[i] <= s[i + 1]
DataSets == {s \in UNION {[1..n -> 1..MaxTs] : n \in 0..MaxRecs} : NonDecreasing(s)}

Init ==
    /\ data \in DataSets
    /\ afterInclusive \in BOOLEAN
    /\ plain = NoFile
    /\ marker = NoFile
    /\ gz = NoFile
    /\ pc = "idle"
    /\ runs = 0
    /\ is_incomplete = FALSE
    /\ before = NoneTs
    /\ after = NoneTs
    /\ first_post = FALSE
    /\ post = NoPost
    /\ pos = 0
    /\ file_finished = FALSE
    /\ gafter = NoneTs
    /\ chunk = <<>>
    /\ retries = 0
    /\ base = <<>>
    /\ pos0 = 0
    /\ nwritten = 0
    /\ lastWritten = NoPost
    /\ attempts = 0
    /\ sleeps = 0
    /\ fetchEnd = "none"
    /\ cause = "none"
    /\ abortPc = "none"
    /\ result = NoneTs
    /\ trace = <<>>
    /\ everStopEarly = FALSE

\* the locals of a new invocation
ResetLocals ==
    /\ first_post' = FALSE
    /\ post' = NoPost
    /\ pos' = 0
    /\ file_finished' = FALSE
    /\ gafter' = NoneTs
    /\ chunk' = <<>>
    /\ retries' = 0
    /\ base' = <<>>
    /\ pos0' = 0
    /\ nwritten' = 0
    /\ lastWritten' = NoPost
    /\ attempts' = 0
    /\ sleeps' = 0
    /\ fetchEnd' = "none"
    /\ cause' = "none"
    /\ abortPc' = "none"
    /\ result' = NoneTs

\* ----------------------------------------------------- dump_subreddit_json
\* The invocation up to the open(incomplete_path, 'w') that precedes the writer.
Start ==
    /\ pc = "idle"
    /\ runs < MaxRuns
    /\ runs' = runs + 1
    /\ ResetLocals
    /\ UNCHANGED <<envVars, gz>>
    /\ \E stop_early \in BOOLEAN :
        LET stale == StaleMarker(marker.exists, plain.exists)
            inc == marker.exists /\ ~stale
        IN  IF SealedExists
            THEN /\ trace' = Append(trace, "already_sealed")
                 /\ UNCHANGED <<plain, marker, pc, dumpVars, after, everStopEarly>>
            ELSE IF RefusesBroken(plain.exists, inc)
            THEN /\ trace' = Append(trace, "broken_error")
                 /\ UNCHANGED <<plain, marker, pc, dumpVars, after, everStopEarly>>
            ELSE IF inc /\ ~IntOk(marker.bytes)
            THEN \* int(timestamp_s) raises ValueError out of the invocation
                 /\ trace' = Append(trace, "crashed")
                 /\ UNCHANGED <<plain, marker, pc, dumpVars, after, everStopEarly>>
            ELSE /\ is_incomplete' = inc
                 /\ before' = IF stop_early THEN StopEarlyTs ELSE NoneTs
                 /\ everStopEarly' = (everStopEarly \/ stop_early)
                 /\ after' = IF inc THEN IntOf(marker.bytes) ELSE NoneTs
                 /\ marker' = File(<<>>)
                 /\ pc' = "prewritten"
                 /\ UNCHANGED <<plain, trace>>

\* --------------------------------------------- write_posts_to_file, opening
OpenWriter ==
    /\ pc = "prewritten"
    /\ LET b0 == plain.bytes
       IN  /\ base' = b0
           /\ IF ~is_incomplete
              THEN /\ plain' = File(WriteAt(b0, 0, OPEN))
                   /\ first_post' = FirstPostAtOpen(is_incomplete)
                   /\ pos' = 1
                   /\ pos0' = 0
              ELSE /\ plain' = File(b0)
                   /\ first_post' = FirstPostAtOpen(is_incomplete)
                   /\ pos' = SeekLastBrace(b0)
                   /\ pos0' = SeekLastBrace(b0)
    /\ gafter' = after
    /\ pc' = "next"
    /\ UNCHANGED <<envVars, marker, gz, runs, dumpVars, after, post, file_finished,
                   chunk, fetchVars, histVars, cause, abortPc, result, trace,
                   everStopEarly>>

\* ------------------------------------------------ fetch_all_subreddit_posts
\* next(post_generator): yields from the page in hand, or asks for a page
NextPost ==
    /\ pc = "next"
    /\ IF chunk # <<>>
       THEN /\ post' = Head(chunk)
            /\ chunk' = Tail(chunk)
            /\ pc' = "sep"
            /\ UNCHANGED fetchVars
       ELSE /\ retries' = 0
            /\ attempts' = 1
            /\ sleeps' = 0
            /\ fetchEnd' = "none"
            /\ pc' = "fetching"
            /\ UNCHANGED <<post, chunk>>
    /\ UNCHANGED <<envVars, diskVars, runs, dumpVars, after, first_post, pos,
                   file_finished, gafter, base, pos0, histVars, cause, abortPc,
                   result, trace, everStopEarly>>

\* ------------------------------------- write_posts_to_file, the except clauses
\* From the raise to the return of dump_subreddit_json: the except clause, the
\* closing delimiter and return inside `if save_incomplete`, the os.remove of
\* `if delete_incomplete`, and the marker written or removed by the caller.
\* The generator and the fetch_chunk frame are unwound with the exception.
Abort(c) ==
    LET saved == SavesIncomplete(c, first_post)
        closed == IF saved THEN WriteAt(plain.bytes, pos, CLOSE) ELSE plain.bytes
        res == IF saved THEN ResumeTimestamp(post, after) ELSE NoneTs
    IN  /\ cause' = c
        /\ abortPc' = pc
        /\ IF ~saved
           THEN /\ plain' = NoFile
                /\ marker' = MarkerAfter(NoneTs)
                /\ result' = NoneTs
                /\ pc' = "idle"
                /\ trace' = Append(trace, "empty")
           ELSE IF SealReached(saved, file_finished)
           THEN /\ plain' = File(closed)
                /\ result' = NoneTs
                /\ pc' = "compress"
                /\ UNCHANGED <<marker, trace>>
           ELSE /\ plain' = File(closed)
                /\ marker' = MarkerAfter(res)
                /\ result' = res
                /\ pc' = "idle"
                /\ trace' = Append(trace, "aborted")
        /\ gafter' = NoneTs
        /\ chunk' = <<>>
        /\ retries' = 0
        /\ attempts' = 0
        /\ sleeps' = 0
        /\ UNCHANGED <<envVars, gz, runs, dumpVars, writerVars, histVars, everStopEarly>>

\* after the loop: print(f'done! loaded until {datetime.fromtimestamp(after)}')
\* raises TypeError when `after` is still None
DonePrintRaises(a) == a = NoneTs

\* the request succeeds and fetch_chunk returns (its locals are gone): an empty
\* page breaks the loop, and the generator ends once its last print is through;
\* when that print raises, the exception reaches the write loop.
\* `after = chunk[-1]['created_utc'] + 1` runs once the page is yielded; only
\* the next fetch_chunk call reads it, so it is set here.
FetchOk ==
    /\ pc = "fetching"
    /\ fetchEnd' = "ok"
    /\ LET page == Page(gafter, before)
       IN  IF page = <<>> /\ DonePrintRaises(gafter)
           THEN Abort("exception")
           ELSE /\ chunk' = page
                /\ gafter' = IF page = <<>> THEN gafter
                             ELSE data[page[Len(page)]] + 1
                /\ pc' = IF page = <<>> THEN "close" ELSE "next"
                /\ retries' = 0
                /\ attempts' = 0
                /\ sleeps' = 0
                /\ UNCHANGED <<envVars, diskVars, runs, dumpVars, after, first_post,
                               post, pos, file_finished, base, pos0, histVars, cause,
                               abortPc, result, trace, everStopEarly>>

\* the request fails with status 524: retries += 1, then time.sleep(retry_delay)
FetchTimeout ==
    /\ pc = "fetching"
    /\ retries' = retries + 1
    /\ sleeps' = sleeps + 1
    /\ pc' = "sleeping"
    /\ UNCHANGED <<envVars, diskVars, runs, dumpVars, writerVars, genVars, attempts,
                   fetchEnd, histVars, cause, abortPc, result, trace, everStopEarly>>

\* the delay is over and the loop condition admits another request
Retry ==
    /\ pc = "sleeping"
    /\ RetryAllowed(retries)
    /\ attempts' = attempts + 1
    /\ pc' = "fetching"
    /\ UNCHANGED <<envVars, diskVars, runs, dumpVars, writerVars, genVars, retries,
                   sleeps, fetchEnd, histVars, cause, abortPc, result, trace,
                   everStopEarly>>

\* raise_for_status() raises an HTTPError whose status is not 524
FetchHttpError ==
    /\ pc = "fetching"
    /\ fetchEnd' = "http"
    /\ Abort("http")

\* the request raises anything else (connection error, undecodable body)
FetchException ==
    /\ pc = "fetching"
    /\ fetchEnd' = "exception"
    /\ Abort("exception")

\* the loop condition fails: raise RuntimeError("Max retries exceeded. Aborting.")
RetryExhausted ==
    /\ pc = "sleeping"
    /\ ~RetryAllowed(retries)
    /\ fetchEnd' = "exhausted"
    /\ Abort("exhausted")

\* a statement of the loop body raises (json.dumps, encode or f.write fails)
LoopException ==
    /\ \/ pc = "sep" /\ ~first_post
       \/ pc \in {"rec", "close"}
    /\ UNCHANGED fetchEnd
    /\ Abort("exception")

\* ------------------------------------------- handle_graceful_interrupt scope
ScopePcs == {"next", "fetching", "sleeping", "sep", "rec", "close", "fin", "exit"}

\* SIGINT inside the scope: signal_handler raises GracefulInterrupt at once
Interrupt ==
    /\ pc \in ScopePcs
    /\ fetchEnd' = IF pc \in {"fetching", "sleeping"} THEN "interrupted" ELSE fetchEnd
    /\ Abort("interrupt")

\* ------------------------------------------ write_posts_to_file, the loop body
\* if not first_post: f.write(b',\n') else: first_post = False
WriteSep ==
    /\ pc = "sep"
    /\ IF ~first_post
       THEN /\ plain' = File(WriteAt(plain.bytes, pos, SEP))
            /\ pos' = pos + Len(SEP)
            /\ UNCHANGED first_post
       ELSE /\ first_post' = FALSE
            /\ UNCHANGED <<plain, pos>>
    /\ pc' = "rec"
    /\ UNCHANGED <<envVars, marker, gz, runs, dumpVars, after, post, file_finished,
                   base, pos0, genVars, fetchVars, histVars, cause, abortPc, result,
                   trace, everStopEarly>>

\* f.write(json.dumps(post).encode('utf-8'))
WriteRec ==
    /\ pc = "rec"
    /\ plain' = File(WriteAt(plain.bytes, pos, Dumps(post)))
    /\ pos' = pos + Len(Dumps(post))
    /\ nwritten' = nwritten + 1
    /\ lastWritten' = post
    /\ pc' = "next"
    /\ UNCHANGED <<envVars, marker, gz, runs, dumpVars, after, first_post, post,
                   file_finished, base, pos0, genVars, fetchVars, cause, abortPc,
                   result, trace, everStopEarly>>

\* the generator is exhausted: f.write(b'\n]')
WriteClose ==
    /\ pc = "close"
    /\ plain' = File(WriteAt(plain.bytes, pos, CLOSE))
    /\ pos' = pos + Len(CLOSE)
    /\ pc' = "fin"
    /\ UNCHANGED <<envVars, marker, gz, runs, dumpVars, after, first_post, post,
                   file_finished, base, pos0, genVars, fetchVars, histVars, cause,
                   abortPc, result, trace, everStopEarly>>

\* file_finished = True
SetFinished ==
    /\ pc = "fin"
    /\ file_finished' = TRUE
    /\ pc' = "exit"
    /\ UNCHANGED <<envVars, diskVars, runs, dumpVars, after, first_post, post, pos,
                   base, pos0, genVars, fetchVars, histVars, cause, abortPc, result,
                   trace, everStopEarly>>

\* the scope and the file are left without an exception; `if file_finished`
LeaveScope ==
    /\ pc = "exit"
    /\ IF SealReached(FALSE, file_finished)
       THEN /\ pc' = "compress"
            /\ UNCHANGED <<marker, trace>>
       ELSE /\ pc' = "idle"
            /\ marker' = MarkerAfter(NoneTs)
            /\ trace' = Append(trace, "returned")
    /\ UNCHANGED <<envVars, plain, gz, runs, dumpVars, writerVars, genVars, fetchVars,
                   histVars, cause, abortPc, result, everStopEarly>>

\* ------------------------------------------------- compress_and_delete_json
\* shutil.copyfileobj(input_file, output_file) into gzip.open(path + '.gz')
Compress ==
    /\ pc = "compress"
    /\ gz' = File(Gzip(plain.bytes))
    /\ pc' = "remove"
    /\ UNCHANGED <<envVars, plain, marker, runs, dumpVars, writerVars, genVars,
                   fetchVars, histVars, cause, abortPc, result, trace, everStopEarly>>

\* os.remove(input_file_path)
RemovePlain ==
    /\ pc = "remove"
    /\ plain' = NoFile
    /\ pc' = "sealed"
    /\ UNCHANGED <<envVars, marker, gz, runs, dumpVars, writerVars, genVars,
                   fetchVars, histVars, cause, abortPc, result, trace, everStopEarly>>

\* write_posts_to_file returns None; the caller removes the marker
Finish ==
    /\ pc = "sealed"
    /\ marker' = MarkerAfter(NoneTs)
    /\ pc' = "idle"
    /\ trace' = Append(trace, "finished")
    /\ UNCHANGED <<envVars, plain, gz, runs, dumpVars, writerVars, genVars, fetchVars,
                   histVars, cause, abortPc, result, everStopEarly>>

\* ---------------------------------------------------------- process killed
\* The process dies with no handler run, and its locals with it.  What f had
\* buffered may be lost: the plain file holds the bytes it had at open and a
\* prefix of those written.
Kill ==
    /\ pc # "idle"
    /\ IF pc \in ScopePcs
       THEN \E k \in 0..(pos - pos0) :
                plain' = File(WriteAt(base, pos0, SubSeq(plain.bytes, pos0 + 1, pos0 + k)))
       ELSE UNCHANGED plain
    /\ pc' = "idle"
    /\ trace' = Append(trace, "killed")
    /\ ResetLocals
    /\ UNCHANGED <<envVars, marker, gz, runs, dumpVars, after, everStopEarly>>

Next ==
    \/ Start
    \/ OpenWriter
    \/ NextPost
    \/ FetchOk
    \/ FetchTimeout
    \/ Retry
    \/ RetryExhausted
    \/ FetchHttpError
    \/ FetchException
    \/ LoopException
    \/ Interrupt
    \/ WriteSep
    \/ WriteRec
    \/ WriteClose
    \/ SetFinished
    \/ LeaveScope
    \/ Compress
    \/ RemovePlain
    \/ Finish
    \/ Kill

Spec == Init /\ [][Next]_vars

\* ------------------------------------------------------ reading the archive
Last(s) == s[Len(s)]
Returned(o) == pc = "idle" /\ trace # <<>> /\ Last(trace) = o

RECURSIVE ParseItems(_, _, _)
\* records from position i on: a record, then a separator and more, or the end
ParseItems(b, i, acc) ==
    IF i + 2 <= Len(b) /\ b[i] = "{" /\ IsIdByte(b[i + 1]) /\ b[i + 2] = "}"
    THEN LET acc2 == Append(acc, IdOf(b[i + 1]))
             rest == SubSeq(b, i + 3, Len(b))
         IN  IF rest = CLOSE THEN [ok |-> TRUE, recs |-> acc2]
             ELSE IF Len(rest) >= 2 /\ SubSeq(rest, 1, 2) = SEP
                  THEN ParseItems(b, i + 5, acc2)
                  ELSE [ok |-> FALSE, recs |-> <<>>]
    ELSE [ok |-> FALSE, recs |-> <<>>]

\* '[' records separated by ',\n' and one closing '\n]', nothing else
Parse(b) ==
    IF Len(b) >= 1 /\ b[1] = "["
    THEN IF SubSeq(b, 2, Len(b)) = CLOSE THEN [ok |-> TRUE, recs |-> <<>>]
         ELSE ParseItems(b, 2, <<>>)
    ELSE [ok |-> FALSE, recs |-> <<>>]

\* a separator directly followed by the closing delimiter
DanglingSep(b) == \E i \in 1..(Len(b) - 3) : SubSeq(b, i, i + 3) = SEP \o CLOSE

RECURSIVE Paginate(_, _)
\* the records one uninterrupted fetch_all_subreddit_posts(after=a, before=b) yields
Paginate(a, b) ==
    LET page == Page(a, b)
    IN  IF page = <<>> THEN <<>> ELSE page \o Paginate(data[Last(page)] + 1, b)

Absent == ~plain.exists /\ ~marker.exists /\ ~gz.exists
InProgress == plain.exists /\ marker.exists /\ ~gz.exists
Sealed == gz.exists /\ ~plain.exists /\ ~marker.exists
Broken == plain.exists /\ ~marker.exists /\ ~gz.exists

\* ------------------------------------------------------------------ claims
\* C1: a fresh start that aborts, for whatever cause, before any record was
\* written leaves neither the plain file nor the marker.
C1_FreshAbortLeavesAbsent ==
    (pc = "idle" /\ runs = 1 /\ trace # <<>> /\ Last(trace) \in {"aborted", "empty"}
        /\ nwritten = 0)
    => (~plain.exists /\ ~marker.exists)

\* C2: after invocations that each ran to their return the archive is Absent,
\* InProgress or Sealed; Broken is never reached.
C2_NeverBroken ==
    (pc = "idle" /\ \A i \in 1..Len(trace) : trace[i] \notin {"killed", "crashed"})
    => (~Broken /\ (Absent \/ InProgress \/ Sealed))

C4_ValidAfterAbort ==
    (Returned("aborted") /\ abortPc \in {"next", "fetching", "sleeping", "sep"})
    => Parse(plain.bytes).ok

\* C5: aborting a run and re-running it to completion seals the record
\* sequence that one uninterrupted run over the same source produces.
C5_IdempotentResume ==
    (pc = "idle" /\ Len(trace) = 2 /\ trace[1] \in {"aborted", "empty"}
        /\ trace[2] = "finished" /\ ~everStopEarly)
    => /\ gz.exists
       /\ Parse(Gunzip(gz.bytes)).ok
       /\ Parse(Gunzip(gz.bytes)).recs = Paginate(NoneTs, NoneTs)

\* C6: an interrupt never aborts in the middle of a record write: the record
\* reported as last is the last one completely written and no separator
\* dangles before the closing delimiter.
C6_NoMidRecordAbort ==
    (Returned("aborted") /\ cause = "interrupt")
    => /\ post = lastWritten
       /\ ~DanglingSep(plain.bytes)

\* C7: the invocation that follows a kill accepts the state the kill left: an
\* empty marker does not make it fail.
C7_AcceptsKilledState ==
    (Len(trace) >= 2 /\ trace[Len(trace) - 1] = "killed") => Last(trace) # "crashed"

\* C8: an invocation that finds the sealed file returns without starting the
\* writer and leaves the sealed file, the plain file and the marker as they are.
C8_SealedNoOp ==
    [][(pc = "idle" /\ gz.exists) => (pc' = "idle" /\ UNCHANGED diskVars)]_vars
C8_Witness ==
    Returned("already_sealed") /\ gz.exists /\ plain.exists /\ marker.exists

\* C9: the sealing step runs only in an invocation whose source was exhausted
\* (an empty page fetched, the closing delimiter written by the normal path),
\* never in one that left the loop by an interrupt or an error.
C9_SealOnlyWhenExhausted ==
    pc \in {"compress", "remove", "sealed"}
    => /\ cause = "none"
       /\ file_finished
       /\ fetchEnd = "ok"
       /\ chunk = <<>>
       /\ Page(gafter, before) = <<>>
C9_Witness == pc = "remove" /\ gz.exists /\ nwritten > 0

\* C10: a page fetch sends at most max_retries requests after the first, with
\* one delay between consecutive requests, fails with the retry-exhausted error
\* once the bound is reached, and ends at once on any other failure.
C10_RetryBound ==
    /\ [](pc \in {"fetching", "sleeping"}
            => /\ attempts <= MaxRetries + 1
               /\ sleeps = retries
               /\ attempts = IF pc = "fetching" THEN sleeps + 1 ELSE sleeps)
    /\ [][(pc = "sleeping" /\ attempts = MaxRetries + 1) => pc' = "idle"]_vars
    /\ [][(fetchEnd # "exhausted" /\ fetchEnd' = "exhausted")
            => (pc = "sleeping" /\ attempts = MaxRetries + 1 /\ pc' = "idle")]_vars
    /\ [][(pc = "fetching" /\ fetchEnd' \in {"http", "exception"})
            => pc' \notin {"fetching", "sleeping"}]_vars
C10_Witness == Returned("aborted") /\ cause = "exhausted" /\ fetchEnd = "exhausted"

\* no record id occurs twice among the bytes b
NoDupIds(b) == \A i, j \in 1..Len(b) : (i < j /\ IsIdByte(b[i])) => b[i] # b[j]

\* the first record of a resumed invocation follows, after one separator, the
\* last '}' the file held when it was opened, and the bytes before are kept
PlacedAfterLastRecord ==
    (is_incomplete /\ nwritten >= 1 /\ plain.exists)
    => LET b == plain.bytes
       IN  /\ pos0 <= Len(base)
           /\ SubSeq(b, 1, pos0) = SubSeq(base, 1, pos0)
           /\ \A i \in (pos0 + 1)..Len(base) : base[i] # "}"
           /\ (\E i \in 1..Len(base) : base[i] = "}") => base[pos0] = "}"
           /\ Len(b) >= pos0 + 5
           /\ SubSeq(b, pos0 + 1, pos0 + 2) = SEP
           /\ b[pos0 + 3] = "{" /\ IsIdByte(b[pos0 + 4]) /\ b[pos0 + 5] = "}"

C12_FailureBecomesAbort ==
    (pc = "idle" /\ cause \in {"http", "exhausted", "exception"})
    => /\ Last(trace) \in {"aborted", "empty"}
       /\ (nwritten >= 1 \/ \E i \in 1..Len(base) : base[i] = "}")
          => /\ Last(trace) = "aborted"
             /\ plain.exists
             /\ SubSeq(plain.bytes, 1, pos0) = SubSeq(base, 1, pos0)
             /\ SubSeq(plain.bytes, pos + 1, pos + 2) = CLOSE
             /\ result # NoneTs
             /\ marker = File(Str(result))
C12_Witness ==
    /\ Returned("aborted")
    /\ cause = "exception"
    /\ abortPc = "fetching"
    /\ nwritten >= 1
    /\ is_incomplete

\* C13: an invocation that finds the plain file without marker and without
\* sealed file reports the error and returns: no writer is started and the
\* plain file, the marker and the sealed file are left as they are.
C13_BrokenRefused ==
    [][(pc = "idle" /\ Broken)
        => (pc' = "idle" /\ UNCHANGED diskVars /\ Last(trace') = "broken_error")]_vars
C13_Witness == Returned("broken_error") /\ Broken /\ Parse(plain.bytes).ok

\* C14: an invocation that finds the marker without plain file and without
\* sealed file does not read the marker and runs as a fresh start: the writer
\* gets is_incomplete = False and after = None and writes '[' at the start of
\* a new plain file.
C14_StaleMarkerIsFresh ==
    /\ [][(pc = "idle" /\ marker.exists /\ ~plain.exists /\ ~gz.exists)
            => (pc' = "prewritten" /\ ~is_incomplete' /\ after' = NoneTs
                    /\ ~plain'.exists)]_vars
    /\ []((pc # "idle" /\ trace # <<>> /\ Last(trace) = "killed")
            => /\ ~is_incomplete
               /\ after = NoneTs
               /\ pc \in ScopePcs
                    => /\ base = <<>> /\ pos0 = 0
                       /\ SubSeq(plain.bytes, 1, 1) = OPEN
                       /\ (pc = "next" /\ post = NoPost /\ fetchEnd = "none")
                            => (plain.bytes = OPEN /\ pos = 1 /\ first_post))
C14_Witness ==
    /\ pc = "next"
    /\ trace # <<>> /\ Last(trace) = "killed"
    /\ plain.bytes = OPEN
    /\ ~is_incomplete

\* C15: an interrupt delivered while a page fetch or an inter-retry delay is
\* in progress does not cut it short: no invocation leaves the write loop on
\* an interrupt from inside fetch_chunk, the fetch or delay ends first.
C15_InterruptWaitsForFetch ==
    cause = "interrupt"
    => (fetchEnd # "interrupted" /\ abortPc \notin {"fetching", "sleeping"})

\* the bytes end with a closing delimiter and hold no other ']'
OneCloseAtEnd(b) ==
    /\ Len(b) >= 2
    /\ SubSeq(b, Len(b) - 1, Len(b)) = CLOSE
    /\ \A i \in 1..(Len(b) - 1) : b[i] # "]"

\* C16: a resumed write_posts_to_file discards whatever follows the last
\* complete record of the plain file: when the invocation ends, aborted or
\* finished, the archive holds one closing delimiter, at its very end, and
\* nothing after it, whatever number of records the invocation wrote.
C16_ResumeDiscardsLeftover ==
    /\ (Returned("aborted") /\ is_incomplete
            /\ abortPc \in {"next", "fetching", "sleeping"})
       => OneCloseAtEnd(plain.bytes)
    /\ (Returned("finished") /\ is_incomplete) => OneCloseAtEnd(Gunzip(gz.bytes))

\* C17: in fetch_all_subreddit_posts a page request that succeeds either
\* yields its records or, when the page is empty, ends the sequence: no
\* successful request makes the generator raise into the write loop.
C17_EmptyPageEndsSequence ==
    ~(fetchEnd = "ok" /\ abortPc = "fetching" /\ cause = "exception")

\* C18 as stated: whenever dump_subreddit_json returns normally, the marker is
\* absent or holds a decimal integer.
C18_MarkerAbsentOrInteger ==
    (pc = "idle" /\ trace # <<>>
        /\ Last(trace) \in {"already_sealed", "broken_error", "finished",
                            "aborted", "empty"})
    => (~marker.exists \/ IntOk(marker.bytes))

\* C18, amended: whenever an invocation that ran the writer returns normally,
\* the marker is absent or holds the decimal integer the writer returned; the
\* marker is empty only while the writer runs.  A return at the Broken test
\* finds and leaves no marker.
C18_MarkerAfterWriter ==
    /\ (pc = "idle" /\ trace # <<>>
            /\ Last(trace) \in {"finished", "aborted", "empty", "broken_error"})
       => \/ ~marker.exists
          \/ /\ Last(trace) = "aborted"
             /\ result # NoneTs
             /\ marker.bytes = Str(result)
             /\ IntOk(marker.bytes)
    /\ pc # "idle" => marker = File(<<>>)
C18_Witness ==
    /\ Returned("aborted")
    /\ marker.exists
    /\ IntOk(marker.bytes)
    /\ IntOf(marker.bytes) = result

\* C19: an invocation that resumes (marker and plain file present at start)
\* never reports Empty, and every complete record the plain file held at the
\* start is still there, at the same position, in the plain file when it
\* aborts or in the sealed file when it finishes.
C19_ResumeKeepsRecords ==
    (pc = "idle" /\ is_incomplete /\ trace # <<>>
        /\ Last(trace) \in {"aborted", "finished", "empty"})
    => /\ Last(trace) # "empty"
       /\ \A i \in 1..Len(base) : base[i] = "}" => i <= pos0
       /\ Last(trace) = "aborted"
            => /\ plain.exists
               /\ Len(plain.bytes) >= pos0
               /\ SubSeq(plain.bytes, 1, pos0) = SubSeq(base, 1, pos0)
       /\ Last(trace) = "finished"
            => /\ gz.exists
               /\ Len(Gunzip(gz.bytes)) >= pos0
               /\ SubSeq(Gunzip(gz.bytes), 1, pos0) = SubSeq(base, 1, pos0)
C19_Witness ==
    /\ Returned("finished")
    /\ is_incomplete
    /\ nwritten >= 1
    /\ \E i \in 1..Len(base) : base[i] = "}"
    /\ cause = "none"
====
